---- MODULE Spec2Model ----
(***************************************************************************)
(* The Ondilo API client (src/src/ondilo/ondilo.py): an OAuth2 session     *)
(* wrapper with a refresh-and-retry request primitive and ten resource     *)
(* methods.  The OAuth2Session the client owns is modelled by what the     *)
(* client's calls on it do: add the stored token to a request (raising     *)
(* TokenExpiredError when the token's expiry time has passed), POST to the *)
(* token endpoint for fetch_token / refresh_token, and keep the token, the *)
(* authorization state and the parsed authorization code.                  *)
(*                                                                         *)
(* Each thread of control runs one public operation at a time.  An         *)
(* operation is cut where it blocks or where another thread can run        *)
(* between two uses of the session: an API request leaving and its answer  *)
(* arriving, the refresh POST leaving and its answer arriving, the token   *)
(* assignment after the refresh, the retried request leaving, and the      *)
(* token request of request_token leaving and its answer arriving.         *)
(***************************************************************************)
EXTENDS Integers, Sequences, FiniteSets, TLC

VARIABLES
    token,        \* self._oauth.token: [access, expires_at]; access 0 = no token
    state,        \* self._oauth._state: 0 = none, 1 = set by authorization_url
    client_code,  \* self._oauth._client.code: 0 = none, else the parsed code
    has_updater,  \* self.token_updater is not None
    now,          \* time.time(), in whole ticks
    issued,       \* number of access tokens the token endpoint has issued
    pc,           \* per thread: where its current operation stands
    call,         \* per thread: the operation and its arguments
    before,       \* per thread: the stored token when the operation was called
    replies,      \* per thread: what each call of getattr(self._oauth, method)
                  \* ended in: 0 = TokenExpiredError, -1 = transport error, else
                  \* the status of the response
    req,          \* per thread: the Response request() returned last
    sent,         \* per thread: API requests that left, in order
    posts,        \* per thread: POSTs to the token endpoint
    refreshes,    \* per thread: calls of refresh_tokens
    updates,      \* per thread: tokens passed to token_updater
    answer,       \* per thread: how the token endpoint answered the POST:
                  \* "none", "granted", "rejected" or "failed" (transport)
    newtok,       \* per thread: the token the token endpoint granted
    result        \* per thread: what the operation returned or raised

vars == <<token, state, client_code, has_updater, now, issued, pc, call, before,
          replies, req, sent, posts, refreshes, updates, answer, newtok, result>>

(***************************************************************************)
(* Bounds of the model.                                                    *)
(***************************************************************************)
MaxTime == 3
MaxTokens == 3

Threads == {"t1", "t2"}
MainThread == {"t1"}

(***************************************************************************)
(* Module constants, ondilo.py lines 7-13.                                 *)
(***************************************************************************)
API_HOST == "https://interop.ondilo.com"
API_URL == API_HOST \o "/api/customer/v1"
ENDPOINT_TOKEN == "/oauth2/token"
ENDPOINT_AUTHORIZE == "/oauth2/authorize"
DEFAULT_CLIENT_ID == "customer_api"
DEFAULT_SCOPE == "api"

\* The redirect_uri the client is constructed with, and its URL-encoded form.
redirect_uri == "https://example.com/api"
Quote(s) == IF s = "https://example.com/api"
            THEN "https%3A%2F%2Fexample.com%2Fapi" ELSE s

(***************************************************************************)
(* Inputs: identifiers and their str() forms, measures and periods.        *)
(***************************************************************************)
PoolIds == {1}
RecommendationIds == {7}
Measures == {"temperature"}
Periods == {"week"}

Str(n) == IF n = 1 THEN "1" ELSE IF n = 7 THEN "7" ELSE "?"

qstr == "?types[]=temperature&types[]=ph&types[]=orp&types[]=salt&types[]=battery&types[]=tds&types[]=rssi"

ResourceMethods ==
    {"get_pools", "get_ICO_details", "get_last_pool_measures",
     "get_pool_recommendations", "validate_pool_recommendation",
     "get_user_units", "get_user_info", "get_pool_config", "get_pool_shares",
     "get_pool_histo"}

\* The HTTP verb a resource method hands to request().
Verb(m) == IF m = "validate_pool_recommendation" THEN "put" ELSE "get"

\* The path a resource method hands to request().
Path(m, pool_id, recommendation_id, measure, period) ==
    CASE m = "get_pools" -> "/pools"
      [] m = "get_ICO_details" -> "/pools/" \o Str(pool_id) \o "/device"
      [] m = "get_last_pool_measures" ->
             "/pools/" \o Str(pool_id) \o "/lastmeasures" \o qstr
      [] m = "get_pool_recommendations" ->
             "/pools/" \o Str(pool_id) \o "/recommendations"
      [] m = "validate_pool_recommendation" ->
             "/pools/" \o Str(pool_id) \o "/recommendations/" \o Str(recommendation_id)
      [] m = "get_user_units" -> "/user/units"
      [] m = "get_user_info" -> "/user/info"
      [] m = "get_pool_config" -> "/pools/" \o Str(pool_id) \o "/configuration"
      [] m = "get_pool_shares" -> "/pools/" \o Str(pool_id) \o "/shares"
      [] m = "get_pool_histo" ->
             "/pools/" \o Str(pool_id) \o "/measures?type=" \o measure
                 \o "&period=" \o period

\* request(): url = f"{API_URL}{path}".
Url(path) == API_URL \o path

(***************************************************************************)
(* What the server and the transport can answer.                           *)
(***************************************************************************)
Statuses == {200, 201, 401}
Texts == {"\"Done\"", "<html>"}
ExpiresIn == {0, 2}

\* Response.json(): decodes the body text, or raises.
JsonValid(text) == text = "\"Done\""
JsonDecode(text) == IF text = "\"Done\"" THEN "Done" ELSE "?"

(***************************************************************************)
(* Tokens.                                                                 *)
(***************************************************************************)
NoToken == [access |-> 0, expires_at |-> 0]

\* oauthlib add_token: self._expires_at and self._expires_at < time.time().
Expired(tok, t) == tok.expires_at # 0 /\ tok.expires_at < t

\* OAuth2Session.request: the token is added only when the session has one.
RaisesExpired(tok, t) == tok.access # 0 /\ Expired(tok, t)

(***************************************************************************)
(* Outcomes of an operation.                                               *)
(***************************************************************************)
NoResult == [exc |-> "", kind |-> "none", status |-> 0, value |-> ""]
Return(v) == [exc |-> "", kind |-> "return", status |-> 0, value |-> v]
Raise(e) == [exc |-> e, kind |-> "raise", status |-> 0, value |-> ""]

\* class OndiloError(status_code, message).
OndiloError(status_code, message) ==
    [exc |-> "OndiloError", kind |-> "raise", status |-> status_code,
     value |-> message]

\* Mutant: every 2xx status passes the test.
IsSuccess_2xx(status_code) == status_code >= 200 /\ status_code < 300

\* The status test every resource method makes on the response.
IsSuccess(status_code) == status_code = 200

\* request() returns the Response as it is.
ReturnResponse(r) ==
    [exc |-> "", kind |-> "return", status |-> r.status, value |-> r.text]

\* A resource method after request() has returned the response.
Decode(status_code, text) ==
    IF ~IsSuccess(status_code) THEN OndiloError(status_code, text)
    ELSE IF JsonValid(text) THEN Return(JsonDecode(text))
    ELSE Raise("JSONDecodeError")

\* Mutant: the retried call is made inside a retry loop.
CatchesExpiry_Loop(attempt) == TRUE

\* Mutant: TokenExpiredError is not handled at all.
CatchesExpiry_Never(attempt) == FALSE

\* request(): the try block covers the first call of the session method only;
\* the call made in the except block is outside it.
CatchesExpiry(attempt) == attempt = 1

\* Mutant: the callback is called by the session and by refresh_tokens() both.
NotifyUpdater_Twice(configured, calls, tok) ==
    IF configured THEN Append(Append(calls, tok), tok) ELSE calls

\* refresh_tokens(): the callback is called with the new token when configured.
NotifyUpdater(configured, calls, tok) ==
    IF configured THEN Append(calls, tok) ELSE calls

\* Mutant: the returned token is dropped and the session left without one.
AssignedToken_None(returned) == [access |-> 0, expires_at |-> 0]

\* request(): self._oauth.token = self.refresh_tokens().
AssignedToken(returned) == returned

\* Mutant: the request is made again as a GET.
RetryRequest_Get(first) == [kwargs |-> first.kwargs, url |-> first.url, verb |-> "get"]

\* request(): the except block calls the same method with the same url and
\* the same keyword arguments.
RetryRequest(first) ==
    [kwargs |-> first.kwargs, url |-> first.url, verb |-> first.verb]

\* Authorization responses handed to request_token: absent, or a callback URL
\* with or without a code, echoing the session's state or not.
NoResponse == [state |-> 0, code |-> 0, present |-> FALSE]
AuthorizationResponses ==
    {NoResponse} \cup [state : {0, 1}, code : {0, 6}, present : {TRUE}]
Codes == {0, 5}

\* Direct calls of request(method, path, **kwargs).
DirectVerbs == {"delete", "post"}
DirectPaths == {"/pools/1"}
DirectKwargs == {"", "json"}

NoReq == [text |-> "", status |-> 0]

\* request(): an exception of refresh_tokens() is not handled: it leaves
\* request() and the resource method, and the operation is over.
AfterRejection == "done"

\* An operation that sends no API request, with its arguments.
Call(name, ar, code) ==
    [kwargs |-> "", url |-> "", verb |-> "", code |-> code, name |-> name,
     ar |-> [state |-> ar.state, code |-> ar.code, present |-> ar.present]]

\* An operation that goes through request().
ApiCall(name, verb, url, kwargs) ==
    [kwargs |-> kwargs, url |-> url, verb |-> verb, code |-> 0, name |-> name,
     ar |-> [state |-> 0, code |-> 0, present |-> FALSE]]

NoCall == Call("none", NoResponse, 0)

Init ==
    /\ has_updater \in BOOLEAN
    /\ \E tok \in {NoToken} \cup [access : {1}, expires_at : {0, 1, 2}] :
          /\ token = tok
          /\ issued = tok.access
    /\ state = 0
    /\ client_code = 0
    /\ now = 2
    /\ pc = [t \in Threads |-> "idle"]
    /\ call = [t \in Threads |-> NoCall]
    /\ before = [t \in Threads |-> token]
    /\ replies = [t \in Threads |-> <<>>]
    /\ req = [t \in Threads |-> NoReq]
    /\ sent = [t \in Threads |-> <<>>]
    /\ posts = [t \in Threads |-> 0]
    /\ refreshes = [t \in Threads |-> 0]
    /\ updates = [t \in Threads |-> <<>>]
    /\ answer = [t \in Threads |-> "none"]
    /\ newtok = [t \in Threads |-> NoToken]
    /\ result = [t \in Threads |-> NoResult]

Free(t) == pc[t] \in {"idle", "done"}

\* The request that leaves when the session method is called with this token.
Wire(verb, url, kwargs, tok) ==
    [access |-> tok.access, kwargs |-> kwargs, url |-> url, verb |-> verb]

Responses == [text : Texts, status : Statuses]

\* One call of getattr(self._oauth, method)(url, **kwargs) by thread t, its
\* attempt-th, up to the point where it blocks: the session tests the stored
\* token's expiry and raises TokenExpiredError before anything is sent, or
\* attaches the stored token and the request leaves.  earlier and left are
\* the replies and requests of this operation so far.
Send(t, attempt, earlier, left, r) ==
    IF RaisesExpired(token, now)
    THEN /\ replies' = [replies EXCEPT ![t] = Append(earlier, 0)]
         /\ sent' = [sent EXCEPT ![t] = left]
         /\ IF CatchesExpiry(attempt)
              THEN /\ pc' = [pc EXCEPT ![t] = "expired"]
                   /\ result' = [result EXCEPT ![t] = NoResult]
              ELSE /\ pc' = [pc EXCEPT ![t] = "done"]
                   /\ result' = [result EXCEPT ![t] = Raise("TokenExpiredError")]
    ELSE /\ replies' = [replies EXCEPT ![t] = earlier]
         /\ sent' = [sent EXCEPT ![t] =
                        Append(left, Wire(r.verb, r.url, r.kwargs, token))]
         /\ pc' = [pc EXCEPT ![t] = "waiting"]
         /\ result' = [result EXCEPT ![t] = NoResult]

\* A public operation that uses request() begins: the per-operation record
\* is reset and the first attempt is made.
Begin(t, c) ==
    /\ Free(t)
    /\ call' = [call EXCEPT ![t] = c]
    /\ before' = [before EXCEPT ![t] = token]
    /\ req' = [req EXCEPT ![t] = NoReq]
    /\ posts' = [posts EXCEPT ![t] = 0]
    /\ refreshes' = [refreshes EXCEPT ![t] = 0]
    /\ updates' = [updates EXCEPT ![t] = <<>>]
    /\ answer' = [answer EXCEPT ![t] = "none"]
    /\ newtok' = [newtok EXCEPT ![t] = NoToken]
    /\ Send(t, 1, <<>>, <<>>, c)
    /\ UNCHANGED <<token, state, client_code, has_updater, now, issued>>

\* A resource method is called: get_pools() ... get_pool_histo().
Invoke(t, m, pool_id, recommendation_id, measure, period) ==
    Begin(t, ApiCall(m, Verb(m),
                     Url(Path(m, pool_id, recommendation_id, measure, period)),
                     ""))

\* request(method, path, **kwargs) is called directly.
Request(t, method, path, kwargs) ==
    Begin(t, ApiCall("request", method, Url(path), kwargs))

\* The API request in flight fails in transport: the exception leaves
\* request() and the resource method.
ReceiveError(t) ==
    /\ pc[t] = "waiting"
    /\ pc' = [pc EXCEPT ![t] = "done"]
    /\ replies' = [replies EXCEPT ![t] = Append(@, -1)]
    /\ result' = [result EXCEPT ![t] = Raise("ConnectionError")]
    /\ UNCHANGED <<token, state, client_code, has_updater, now, issued, call,
                   before, req, sent, posts, refreshes, updates, answer, newtok>>

\* The response to the API request in flight arrives: request() returns it,
\* and a resource method tests its status and decodes its body.
Receive(t) ==
    /\ pc[t] = "waiting"
    /\ pc' = [pc EXCEPT ![t] = "done"]
    /\ \E r \in Responses :
          /\ replies' = [replies EXCEPT ![t] = Append(@, r.status)]
          /\ req' = [req EXCEPT ![t] = r]
          /\ result' = [result EXCEPT ![t] =
                           IF call[t].name = "request" THEN ReturnResponse(r)
                           ELSE Decode(r.status, r.text)]
    /\ UNCHANGED <<token, state, client_code, has_updater, now, issued, call,
                   before, sent, posts, refreshes, updates, answer, newtok>>

\* request(), except TokenExpiredError: refresh_tokens() is entered and the
\* refresh POST leaves for the token endpoint.
RefreshBegin(t) ==
    /\ pc[t] = "expired"
    /\ pc' = [pc EXCEPT ![t] = "refreshing"]
    /\ refreshes' = [refreshes EXCEPT ![t] = @ + 1]
    /\ posts' = [posts EXCEPT ![t] = @ + 1]
    /\ UNCHANGED <<token, state, client_code, has_updater, now, issued, call,
                   before, replies, req, sent, updates, answer, newtok, result>>

\* refresh_tokens() is called directly: the refresh POST leaves.
RefreshTokens(t) ==
    /\ Free(t)
    /\ call' = [call EXCEPT ![t] = Call("refresh_tokens", NoResponse, 0)]
    /\ before' = [before EXCEPT ![t] = token]
    /\ pc' = [pc EXCEPT ![t] = "refreshing"]
    /\ replies' = [replies EXCEPT ![t] = <<>>]
    /\ req' = [req EXCEPT ![t] = NoReq]
    /\ sent' = [sent EXCEPT ![t] = <<>>]
    /\ posts' = [posts EXCEPT ![t] = 1]
    /\ refreshes' = [refreshes EXCEPT ![t] = 1]
    /\ updates' = [updates EXCEPT ![t] = <<>>]
    /\ answer' = [answer EXCEPT ![t] = "none"]
    /\ newtok' = [newtok EXCEPT ![t] = NoToken]
    /\ result' = [result EXCEPT ![t] = NoResult]
    /\ UNCHANGED <<token, state, client_code, has_updater, now, issued>>

\* The token endpoint grants the refresh: the session stores the new token,
\* refresh_tokens() calls token_updater and returns the token, to request()
\* or to the caller.
RefreshGranted(t) ==
    /\ pc[t] = "refreshing"
    /\ issued < MaxTokens
    /\ \E expires_in \in ExpiresIn :
          LET tok == [access |-> issued + 1, expires_at |-> now + expires_in]
          IN /\ token' = tok
             /\ newtok' = [newtok EXCEPT ![t] = tok]
             /\ updates' = [updates EXCEPT ![t] = NotifyUpdater(has_updater, @, tok)]
    /\ issued' = issued + 1
    /\ answer' = [answer EXCEPT ![t] = "granted"]
    /\ IF call[t].name = "refresh_tokens"
         THEN /\ pc' = [pc EXCEPT ![t] = "done"]
              /\ result' = [result EXCEPT ![t] = Return("token")]
         ELSE /\ pc' = [pc EXCEPT ![t] = "refreshed"]
              /\ UNCHANGED result
    /\ UNCHANGED <<state, client_code, has_updater, now, call, before, replies,
                   req, sent, posts, refreshes>>

\* The refresh does not yield a token: the exception e leaves
\* refresh_tokens(), and request() does not handle it.
RefreshRaises(t, how, e) ==
    /\ pc[t] = "refreshing"
    /\ answer' = [answer EXCEPT ![t] = how]
    /\ LET next == IF call[t].name = "refresh_tokens" THEN "done"
                   ELSE AfterRejection
       IN /\ pc' = [pc EXCEPT ![t] = next]
          /\ result' = [result EXCEPT ![t] =
                           IF next = "done" THEN Raise(e) ELSE NoResult]
    /\ UNCHANGED <<token, state, client_code, has_updater, now, issued, call,
                   before, replies, req, sent, posts, refreshes, updates, newtok>>

\* The token endpoint rejects the refresh.
RefreshRejected(t) == RefreshRaises(t, "rejected", "InvalidGrantError")

\* The refresh POST fails in transport.
RefreshError(t) == RefreshRaises(t, "failed", "ConnectionError")

\* request(): self._oauth.token = self.refresh_tokens().
Assign(t) ==
    /\ pc[t] = "refreshed"
    /\ pc' = [pc EXCEPT ![t] = "assigned"]
    /\ token' = AssignedToken(newtok[t])
    /\ UNCHANGED <<state, client_code, has_updater, now, issued, call, before,
                   replies, req, sent, posts, refreshes, updates, answer, newtok,
                   result>>

\* request(): the request is made again, outside the try block.
Retry(t) ==
    /\ pc[t] = "assigned"
    /\ Send(t, Len(replies[t]) + 1, replies[t], sent[t], RetryRequest(call[t]))
    /\ UNCHANGED <<token, state, client_code, has_updater, now, issued, call,
                   before, req, posts, refreshes, updates, answer, newtok>>

\* Mutant: the token request is sent even when there is nothing to send.
MissingArguments_Never(code, ar, kept) == FALSE

\* request_token(): fetch_token is handed neither a usable code nor a callback
\* URL, and the session kept no code from an earlier callback URL.
MissingArguments(code, ar, kept) == code = 0 /\ ~ar.present /\ kept = 0

\* request_token(authorization_response, code): OAuth2Session.fetch_token.
\* A usable code is sent as it is; otherwise the callback URL is parsed and
\* its code kept by the session; otherwise the code the session kept earlier
\* is used, and ValueError is raised when there is none.  Before the token
\* request leaves, the session's token is emptied.
RequestToken(t, ar, code) ==
    /\ Free(t)
    /\ call' = [call EXCEPT ![t] = Call("request_token", ar, code)]
    /\ before' = [before EXCEPT ![t] = token]
    /\ replies' = [replies EXCEPT ![t] = <<>>]
    /\ req' = [req EXCEPT ![t] = NoReq]
    /\ sent' = [sent EXCEPT ![t] = <<>>]
    /\ refreshes' = [refreshes EXCEPT ![t] = 0]
    /\ updates' = [updates EXCEPT ![t] = <<>>]
    /\ answer' = [answer EXCEPT ![t] = "none"]
    /\ newtok' = [newtok EXCEPT ![t] = NoToken]
    /\ LET parses == code = 0 /\ ar.present
           mismatch == parses /\ state # 0 /\ ar.state # state
           nocode == parses /\ ~mismatch /\ ar.code = 0
           kept == IF parses /\ ~mismatch /\ ~nocode THEN ar.code ELSE client_code
           fail(e) == /\ result' = [result EXCEPT ![t] = Raise(e)]
                      /\ pc' = [pc EXCEPT ![t] = "done"]
                      /\ posts' = [posts EXCEPT ![t] = 0]
                      /\ UNCHANGED token
       IN /\ client_code' = kept
          /\ IF mismatch THEN fail("MismatchingStateError")
             ELSE IF nocode THEN fail("MissingCodeError")
             ELSE IF MissingArguments(code, ar, client_code) THEN fail("ValueError")
             ELSE /\ token' = NoToken
                  /\ posts' = [posts EXCEPT ![t] = 1]
                  /\ pc' = [pc EXCEPT ![t] = "exchanging"]
                  /\ result' = [result EXCEPT ![t] = NoResult]
    /\ UNCHANGED <<state, has_updater, now, issued>>

\* The token endpoint grants the exchange: the session stores the token and
\* request_token returns it.
ExchangeGranted(t) ==
    /\ pc[t] = "exchanging"
    /\ issued < MaxTokens
    /\ \E expires_in \in ExpiresIn :
          LET tok == [access |-> issued + 1, expires_at |-> now + expires_in]
          IN /\ token' = tok
             /\ newtok' = [newtok EXCEPT ![t] = tok]
    /\ issued' = issued + 1
    /\ answer' = [answer EXCEPT ![t] = "granted"]
    /\ pc' = [pc EXCEPT ![t] = "done"]
    /\ result' = [result EXCEPT ![t] = Return("token")]
    /\ UNCHANGED <<state, client_code, has_updater, now, call, before, replies,
                   req, sent, posts, refreshes, updates>>

\* The exchange does not yield a token: the exception leaves request_token
\* and the session stays without a token.
ExchangeRaises(t, how, e) ==
    /\ pc[t] = "exchanging"
    /\ answer' = [answer EXCEPT ![t] = how]
    /\ pc' = [pc EXCEPT ![t] = "done"]
    /\ result' = [result EXCEPT ![t] = Raise(e)]
    /\ UNCHANGED <<token, state, client_code, has_updater, now, issued, call,
                   before, replies, req, sent, posts, refreshes, updates, newtok>>

\* The token endpoint rejects the exchange.
ExchangeRejected(t) == ExchangeRaises(t, "rejected", "InvalidGrantError")

\* The token request fails in transport.
ExchangeError(t) == ExchangeRaises(t, "failed", "ConnectionError")

\* The URL authorization_url builds from the session's settings.
AuthorizationUrl ==
    API_HOST \o ENDPOINT_AUTHORIZE \o "?response_type=code&client_id="
        \o DEFAULT_CLIENT_ID \o "&redirect_uri=" \o Quote(redirect_uri)
        \o "&scope=" \o DEFAULT_SCOPE \o "&state=<random>"

\* get_authurl(): OAuth2Session.authorization_url generates a state, keeps it
\* and returns the URL of the authorize endpoint with its query.
GetAuthurl(t) ==
    /\ Free(t)
    /\ call' = [call EXCEPT ![t] = Call("get_authurl", NoResponse, 0)]
    /\ before' = [before EXCEPT ![t] = token]
    /\ state' = 1
    /\ pc' = [pc EXCEPT ![t] = "done"]
    /\ result' = [result EXCEPT ![t] = Return(AuthorizationUrl)]
    /\ replies' = [replies EXCEPT ![t] = <<>>]
    /\ req' = [req EXCEPT ![t] = NoReq]
    /\ sent' = [sent EXCEPT ![t] = <<>>]
    /\ posts' = [posts EXCEPT ![t] = 0]
    /\ refreshes' = [refreshes EXCEPT ![t] = 0]
    /\ updates' = [updates EXCEPT ![t] = <<>>]
    /\ answer' = [answer EXCEPT ![t] = "none"]
    /\ newtok' = [newtok EXCEPT ![t] = NoToken]
    /\ UNCHANGED <<token, client_code, has_updater, now, issued>>

\* Time passes.
Tick ==
    /\ now < MaxTime
    /\ now' = now + 1
    /\ UNCHANGED <<token, state, client_code, has_updater, issued, pc, call,
                   before, replies, req, sent, posts, refreshes, updates, answer,
                   newtok, result>>

\* The steps of an operation once it has begun.
Continue(t) ==
    \/ ReceiveError(t)
    \/ Receive(t)
    \/ RefreshBegin(t)
    \/ RefreshGranted(t)
    \/ RefreshRejected(t)
    \/ RefreshError(t)
    \/ Assign(t)
    \/ Retry(t)

Step(t) ==
    \/ \E m \in ResourceMethods, pool_id \in PoolIds,
          recommendation_id \in RecommendationIds, measure \in Measures,
          period \in Periods :
          Invoke(t, m, pool_id, recommendation_id, measure, period)
    \/ \E method \in DirectVerbs, path \in DirectPaths, kwargs \in DirectKwargs :
          Request(t, method, path, kwargs)
    \/ RefreshTokens(t)
    \/ Continue(t)
    \/ \E ar \in AuthorizationResponses, code \in Codes : RequestToken(t, ar, code)
    \/ ExchangeGranted(t)
    \/ ExchangeRejected(t)
    \/ ExchangeError(t)
    \/ GetAuthurl(t)

\* One thread of control uses the client.
Next == Tick \/ \E t \in MainThread : Step(t)

Spec == Init /\ [][Next]_vars

\* Two threads of control call resource methods on the same client.
ConcurrentMethods == {"get_pools", "validate_pool_recommendation"}

NextConcurrent ==
    \/ Tick
    \/ \E t \in Threads :
          \/ \E m \in ConcurrentMethods, pool_id \in PoolIds,
                recommendation_id \in RecommendationIds :
                Invoke(t, m, pool_id, recommendation_id, "temperature", "week")
          \/ RefreshTokens(t)
          \/ Continue(t)

SpecConcurrent == Init /\ [][NextConcurrent]_vars

(***************************************************************************)
(* Properties.                                                             *)
(***************************************************************************)
IsResource(t) == call[t].name \in ResourceMethods
Done(t) == pc[t] = "done"
\* Calls of the session method the operation has made so far.
Attempts(t) == Len(replies[t]) + IF pc[t] = "waiting" THEN 1 ELSE 0
\* The thread's first attempt met the OAuth layer's expiry signal.
FirstExpired(t) == Attempts(t) >= 1 /\ replies[t][1] = 0
\* The refresh the thread made was granted.
RefreshSucceeded(t) == refreshes[t] >= 1 /\ answer[t] = "granted"

\* C1: a resource call whose first attempt signals an expired token and whose
\* refresh succeeds has made, when it is over, exactly one refresh call and
\* exactly one retried attempt, and token_updater was called exactly once
\* with the refreshed token (not at all when none is configured).
C1_OneRefreshOneRetryOneUpdate ==
    \A t \in Threads :
        (Done(t) /\ IsResource(t) /\ FirstExpired(t) /\ RefreshSucceeded(t)) =>
            /\ refreshes[t] = 1
            /\ posts[t] = 1
            /\ Attempts(t) = 2
            /\ updates[t] = IF has_updater THEN <<newtok[t]>> ELSE <<>>

C1_Witness ==
    \E t \in Threads :
        /\ Done(t) /\ IsResource(t) /\ FirstExpired(t) /\ RefreshSucceeded(t)
        /\ has_updater
        /\ updates[t] = <<newtok[t]>>
        /\ result[t].kind = "return"

\* C2: whatever the server and the OAuth layer answer, a resource call makes
\* at most one refresh and at most two attempts, and once the second attempt
\* has been made the call is over: it never goes back to refreshing.
C2_BoundedAttempts ==
    \A t \in Threads :
        IsResource(t) =>
            /\ refreshes[t] <= 1
            /\ Attempts(t) <= 2
            /\ Len(sent[t]) <= 2
            /\ Len(replies[t]) = 2 => Done(t)

C2_Witness ==
    \E t \in Threads :
        Done(t) /\ IsResource(t) /\ replies[t] = <<0, 0>> /\ refreshes[t] = 1

\* C3 as stated: a first attempt that fails on the access token, by a 401
\* response or by the OAuth layer's expiry signal, is followed by a refresh
\* and, when the refresh succeeds, by one reissue.
C3_Original ==
    \A t \in Threads :
        (Done(t) /\ IsResource(t) /\ replies[t][1] \in {0, 401}) =>
            /\ refreshes[t] = 1
            /\ RefreshSucceeded(t) => Attempts(t) = 2

\* C3 amended: only the OAuth layer's expiry signal triggers the refresh and
\* the reissue; a 401 response to the first attempt triggers neither and is
\* raised as OndiloError with status 401 and the response text.
C3_RefreshOnExpirySignalOnly ==
    \A t \in Threads :
        (Done(t) /\ IsResource(t)) =>
            /\ FirstExpired(t) =>
                  /\ refreshes[t] = 1
                  /\ RefreshSucceeded(t) => Attempts(t) = 2
            /\ replies[t][1] = 401 =>
                  /\ refreshes[t] = 0
                  /\ Attempts(t) = 1
                  /\ result[t] = OndiloError(401, req[t].text)

C3_Witness ==
    \E t \in Threads :
        /\ Done(t) /\ IsResource(t) /\ FirstExpired(t)
        /\ refreshes[t] = 1 /\ Attempts(t) = 2 /\ Len(sent[t]) = 1

\* C4 as stated: a final status in the 2xx range returns the JSON-decoded
\* body, any other final status raises OndiloError with that status and the
\* response text.
C4_Original ==
    \A t \in Threads :
        (Done(t) /\ IsResource(t) /\ req[t] # NoReq /\ JsonValid(req[t].text)) =>
            IF req[t].status >= 200 /\ req[t].status < 300
            THEN result[t] = Return(JsonDecode(req[t].text))
            ELSE result[t] = OndiloError(req[t].status, req[t].text)

\* C4 amended: a final status of exactly 200 returns the JSON-decoded body
\* (when the body is JSON); every other final status, the other 2xx included,
\* raises OndiloError with that status and the response text.  No status other
\* than 200 yields a return value and status 200 never yields an OndiloError.
C4_Only200Returns ==
    \A t \in Threads :
        (Done(t) /\ IsResource(t)) =>
            /\ req[t] # NoReq =>
                  IF req[t].status = 200
                  THEN /\ JsonValid(req[t].text) =>
                              result[t] = Return(JsonDecode(req[t].text))
                       /\ result[t].exc # "OndiloError"
                  ELSE result[t] = OndiloError(req[t].status, req[t].text)
            /\ result[t].kind = "return" => req[t].status = 200
            /\ result[t].exc = "OndiloError" =>
                  req[t] # NoReq /\ req[t].status # 200

C4_Witness ==
    \E t \in Threads :
        /\ Done(t) /\ IsResource(t) /\ Attempts(t) = 2
        /\ req[t].status = 201
        /\ result[t] = OndiloError(201, "\"Done\"")

\* The error kind of the specification an exception belongs to.  The module
\* defines one error class, OndiloError, the ApiError; it defines no AuthError
\* and no InvalidArgument and wraps nothing, so an exception class of the
\* OAuth or transport layer (InvalidGrantError, TokenExpiredError,
\* MissingCodeError, MismatchingStateError, ConnectionError) reaches the
\* caller raw.  The builtin ValueError, which fetch_token raises when it is
\* handed nothing to send, is the language's argument error: the
\* InvalidArgument.
ErrorKind(exc) ==
    CASE exc = "OndiloError" -> "ApiError"
      [] exc = "ValueError" -> "InvalidArgument"
      [] OTHER -> "raw"

\* C5: a failing resource call reaches the caller as AuthError, ApiError or
\* InvalidArgument; in particular a refresh that is rejected, and a retried
\* attempt that again raises the OAuth layer's expiry signal, never surface
\* as a raw exception of the OAuth layer.  Stated for the two cases the
\* claim names.
C5_StructuredErrors ==
    \A t \in Threads :
        (Done(t) /\ IsResource(t) /\ result[t].kind = "raise"
            /\ (answer[t] = "rejected" \/ replies[t] = <<0, 0>>)) =>
            ErrorKind(result[t].exc) \in {"ApiError", "AuthError", "InvalidArgument"}

\* C6: of the resource calls that met the expiry signal, at most one has its
\* refresh in flight at a time.
C6_RefreshSerialized ==
    Cardinality({t \in Threads : IsResource(t) /\ pc[t] = "refreshing"}) <= 1

\* C7 as stated: when an operation is over the stored token differs from the
\* one it began with only if it is a request_token or a refresh that
\* succeeded; get_authurl, a resource call that makes no refresh, and any
\* call that ends in OndiloError leave the stored token as it was when the
\* call began and do not call token_updater.
C7_Original ==
    \A t \in MainThread :
        Done(t) =>
            /\ token # before[t] => answer[t] = "granted"
            /\ (\/ call[t].name = "get_authurl"
                \/ IsResource(t) /\ refreshes[t] = 0
                \/ IsResource(t) /\ result[t].exc = "OndiloError") =>
                  token = before[t] /\ updates[t] = <<>>

\* C7 amended: during and after an operation the stored token differs from
\* the one the operation began with, or token_updater has been called, only
\* if the operation is a request_token whose token request has been sent
\* (the token is emptied when it is sent and stays empty unless the exchange
\* is granted, and token_updater is not called) or an operation whose refresh
\* succeeded, and the stored token is then the one the exchange or refresh
\* returned.  get_authurl and a call that makes no refresh leave the token
\* unchanged and call no token_updater, however the call ends.
C7_TokenChangesOnlyByExchangeOrRefresh ==
    \A t \in MainThread :
        /\ (token # before[t] \/ updates[t] # <<>>) =>
              \/ /\ call[t].name = "request_token"
                 /\ posts[t] = 1
                 /\ updates[t] = <<>>
                 /\ IF answer[t] = "granted" THEN token = newtok[t]
                    ELSE token = NoToken
              \/ /\ IsResource(t) \/ call[t].name \in {"request", "refresh_tokens"}
                 /\ RefreshSucceeded(t)
                 /\ token = newtok[t]
        /\ (call[t].name = "get_authurl" \/ (IsResource(t) /\ refreshes[t] = 0)) =>
              token = before[t] /\ updates[t] = <<>>

C7_Witness ==
    \E t \in MainThread :
        /\ Done(t) /\ IsResource(t) /\ result[t].exc = "OndiloError"
        /\ RefreshSucceeded(t)
        /\ token # before[t]
        /\ updates[t] = <<token>>

\* C8: a resource call whose refresh is rejected by the token endpoint (the
\* refresh token is invalid or expired) is over: it has failed with AuthError,
\* no retried request was dispatched, token_updater was not called, no second
\* refresh was made and the stored token is as it was.
C8_FailedRefreshIsTerminal ==
    \A t \in MainThread :
        (IsResource(t) /\ refreshes[t] >= 1 /\ answer[t] = "rejected") =>
            /\ Done(t)
            /\ result[t].kind = "raise"
            /\ ErrorKind(result[t].exc) = "AuthError"
            /\ Attempts(t) = 1
            /\ sent[t] = <<>>
            /\ updates[t] = <<>>
            /\ refreshes[t] = 1
            /\ posts[t] = 1
            /\ token = before[t]

BothAbsent(t) ==
    call[t].name = "request_token" /\ ~call[t].ar.present /\ call[t].code = 0

\* C9 as stated: request_token called with neither authorization_response
\* nor code fails with InvalidArgument, sends nothing to the token endpoint
\* and leaves the stored token unchanged.
C9_Original ==
    \A t \in Threads :
        (Done(t) /\ BothAbsent(t)) =>
            /\ result[t].kind = "raise"
            /\ ErrorKind(result[t].exc) = "InvalidArgument"
            /\ posts[t] = 0
            /\ token = before[t]

\* C9 amended: the same, provided the session keeps no authorization code
\* parsed from the callback URL of an earlier request_token call; when it
\* keeps one, that code is sent to the token endpoint.
C9_BothAbsentNoKeptCode ==
    \A t \in Threads :
        (Done(t) /\ BothAbsent(t)) =>
            IF client_code = 0
            THEN /\ result[t] = Raise("ValueError")
                 /\ posts[t] = 0
                 /\ answer[t] = "none"
                 /\ token = before[t]
            ELSE posts[t] = 1

C9_Witness ==
    \E t \in Threads :
        /\ Done(t) /\ BothAbsent(t) /\ client_code = 0
        /\ result[t] = Raise("ValueError")
        /\ token # NoToken

\* C10: every API request a resource call sent has the verb, URL and keyword
\* arguments of the call and carries the stored access token; a second attempt exists only
\* once the refresh has succeeded, the stored token is the refreshed one and
\* token_updater (when configured) has been called with it, and the retried
\* request carries the refreshed access token.
C10_RetryCarriesNewToken ==
    \A t \in MainThread :
        IsResource(t) =>
            /\ \A i \in DOMAIN sent[t] :
                  /\ sent[t][i].verb = call[t].verb
                  /\ sent[t][i].url = call[t].url
                  /\ sent[t][i].kwargs = call[t].kwargs
                  /\ sent[t][i].access = token.access
            /\ Attempts(t) = 2 =>
                  /\ RefreshSucceeded(t)
                  /\ token = newtok[t]
                  /\ has_updater => updates[t] = <<newtok[t]>>
                  /\ \A i \in DOMAIN sent[t] : sent[t][i].access = newtok[t].access

C10_Witness ==
    \E t \in MainThread :
        /\ Done(t) /\ call[t].name = "validate_pool_recommendation"
        /\ Attempts(t) = 2
        /\ has_updater
        /\ before[t].access = 1
        /\ sent[t] = <<[access |-> 2,
                        kwargs |-> "",
                        url |-> API_URL \o "/pools/1/recommendations/7",
                        verb |-> "put"]>>

====
